---- MODULE Spec2Model ----
(***************************************************************************)
(* Model of src/app.py: a Flask service that downloads an image, tiles a   *)
(* rotated, semi-transparent logo over it and returns the result.          *)
(*                                                                         *)
(* Images are records [w, h, rgb, alpha]: the pixel size and the pixel     *)
(* channels (rgb as one number per pixel, alpha 0..255 per pixel), in row  *)
(* order.  Python floats are modelled exactly on the integers used here:   *)
(* a float quotient num/den is kept as the pair and rounded as IEEE-754    *)
(* binary64 rounds it (FloatIntMul).  Fractions of the configuration are   *)
(* kept as integers: opacity in tenths, scale in hundredths.               *)
(***************************************************************************)
EXTENDS Integers, Sequences, FiniteSets, TLC

VARIABLES
    logoExists,   \* os.path.exists(LOGO_FILENAME)
    logoValid,    \* the logo file decodes as an image
    logoImg,      \* the decoded content of the logo file
    heap,         \* image objects that are mutated in place, by reference
    pc,           \* per worker: position in watermark_image
    req,          \* per worker: the locals of watermark_image
    resp,         \* per worker: the response returned
    healthResp,   \* the last /health response's logo_exists ("none" before any)
    sinceHealth,  \* per worker: the request began after /health said false and
                  \* the logo has been absent ever since
    fin,          \* function harness: the arguments of the call
    fout,         \* function harness: the locals / result of the call
    fpc           \* function harness: position of the call

srvVars == <<logoExists, logoValid, logoImg, pc, req, resp, healthResp, sinceHealth>>
fnVars == <<fin, fout, fpc>>
vars == <<logoExists, logoValid, logoImg, heap, pc, req, resp, healthResp,
          sinceHealth, fin, fout, fpc>>

(***************************************************************************)
(* Bounds of the model.                                                    *)
(***************************************************************************)
NumWorkers == 2      \* concurrent request threads
MaxDim == 11         \* largest width/height handed to resize_proportional
MaxTarget == 15      \* largest target_size handed to resize_proportional
MaxCanvas == 4       \* largest base image side for create_tiled_pattern
MaxTile == 4         \* largest tile side for create_tiled_pattern
MaxSide == 11        \* largest source image side downloaded
MaxPix == 2          \* most pixels of a buffer handed to adjust_opacity

(***************************************************************************)
(* Configuration (src/app.py lines 10-13).                                 *)
(***************************************************************************)
WATERMARK_OPACITY == 8     \* 0.8, in tenths
ROTATION_ANGLE == 45       \* degrees
WATERMARK_SCALE == 20      \* 0.20, in hundredths

Workers == 1..NumWorkers
Max(a, b) == IF a >= b THEN a ELSE b
Min(a, b) == IF a <= b THEN a ELSE b

RECURSIVE Pow2(_)
Pow2(n) == IF n <= 0 THEN 1 ELSE 2 * Pow2(n - 1)

RECURSIVE Pow2Mod(_, _)
Pow2Mod(n, d) == IF n <= 0 THEN 1 % d ELSE (2 * Pow2Mod(n - 1, d)) % d

\* floor(log2(n)) for n >= 1
RECURSIVE Log2(_)
Log2(n) == IF n <= 1 THEN 0 ELSE 1 + Log2(n \div 2)

\* the integer e with 2^e <= num/den < 2^(e+1), num, den >= 1
RECURSIVE Log2Down(_, _, _)
Log2Down(num, den, e) ==
    IF num * Pow2(-e) >= den THEN e ELSE Log2Down(num, den, e - 1)
Log2Q(num, den) ==
    IF num >= den THEN Log2(num \div den) ELSE Log2Down(num, den, -1)

ISqrt(n) == CHOOSE r \in 0..n : r * r <= n /\ (r + 1) * (r + 1) > n

(***************************************************************************)
(* int(x * (num / den)) in Python: the quotient is rounded to 53           *)
(* significant bits, the product is rounded again, int() truncates.        *)
(* When x*num/den is no integer the rounding errors cannot reach the next  *)
(* integer.  When it is an integer n, the quotient's rounding error (rem,  *)
(* of den, in units of the quotient's last place) is scaled by x; the      *)
(* product falls below n exactly when that deficit exceeds half the        *)
(* spacing of floats just below n.                                         *)
(***************************************************************************)
FloatIntMul(x, ratio) ==
    LET num == ratio.num
        den == ratio.den
    IN  IF num = 0 \/ x = 0 THEN 0
        ELSE IF (x * num) % den # 0 THEN (x * num) \div den
        ELSE LET n == (x * num) \div den
                 e == Log2Q(num, den)
                 rem == (num * Pow2Mod(52 - e, den)) % den
                 deficit == (x * rem) \div den
                 k == Log2(n)
                 a == IF n = Pow2(k) THEN k - e - 1 ELSE k - e
             IN  IF rem = 0 \/ 2 * rem > den THEN n
                 ELSE IF 2 * deficit * Pow2(-a) > Pow2(a) THEN n - 1
                 ELSE n

\* ratio = min(target_size / original_width, target_size / original_height)
RatioOf(target_size, original_width, original_height) ==
    IF target_size * original_width < target_size * original_height
    THEN [num |-> target_size, den |-> original_height]
    ELSE [num |-> target_size, den |-> original_width]

NoImage == [w |-> 0, h |-> 0, rgb |-> <<>>, alpha |-> <<>>]

Raised(e) == [ok |-> FALSE, exc |-> e, img |-> NoImage]
Returned(i) == [ok |-> TRUE, exc |-> "", img |-> i]

\* Image.resize: the C resizer rejects an empty target size; pixel values
\* are resampled (LANCZOS) and not kept by the model.
ImageResize(image, new_width, new_height) ==
    IF new_width < 1 \/ new_height < 1
    THEN Raised("ValueError")
    ELSE Returned([w |-> new_width, h |-> new_height, rgb |-> <<>>, alpha |-> <<>>])

resize_proportional(image, target_size) ==
    LET ratio == RatioOf(target_size, image.w, image.h)
        new_width == FloatIntMul(image.w, ratio)
        new_height == FloatIntMul(image.h, ratio)
    IN  ImageResize(image, new_width, new_height)

(***************************************************************************)
(* adjust_opacity (lines 49-58).  The image is an object: `image` is a     *)
(* reference into the heap h, putalpha replaces its alpha band in place,   *)
(* and the same reference is returned.                                      *)
(***************************************************************************)
\* ImageEnhance.Brightness(alpha).enhance(opacity): a blend with black,
\* truncated to 8 bits; opacity in tenths.
Enhance(alpha, opacity) ==
    [i \in 1..Len(alpha) |-> Max(0, Min(255, (alpha[i] * opacity) \div 10))]

PutAlpha(h, image, alpha) == [h EXCEPT ![image].alpha = alpha]

adjust_opacity(h, image, opacity) ==
    IF opacity >= 10
    THEN [heap |-> h, ret |-> image]
    ELSE [heap |-> PutAlpha(h, image, Enhance(h[image].alpha, opacity)),
          ret |-> image]

(***************************************************************************)
(* Image.rotate(45, expand=True) (line 117): Pillow maps the four corners  *)
(* through the rotation about the centre and takes                          *)
(* ceil(max) - floor(min) per axis.  With cos = sin = 0.707106781186548     *)
(* the extent along each axis is (side +- (w+h)/sqrt 2)/2, never an        *)
(* integer, so floor and ceil follow from floor((w+h)/sqrt 2).              *)
(***************************************************************************)
RotatedSide(side, w, h) ==
    LET diag == ISqrt(((w + h) * (w + h)) \div 2)
    IN  ((side + diag) \div 2 + 1) - ((side - diag - 1) \div 2)

ImageRotate(image, angle) ==
    IF angle = 45
    THEN [w |-> RotatedSide(image.w, image.w, image.h),
          h |-> RotatedSide(image.h, image.w, image.h),
          rgb |-> <<>>, alpha |-> <<>>]
    ELSE image

(***************************************************************************)
(* create_tiled_pattern (lines 68-97).                                     *)
(***************************************************************************)
\* int(tile_width * 0.8): the float 0.8 lies just above 4/5
Spacing(tile_side) == (tile_side * 8) \div 10

\* -tile_width // 2 is (-tile_width) // 2, rounded down
Offset(tile_side) == (0 - tile_side) \div 2

\* range(start, stop, step), step >= 1
Range(start, stop, step) ==
    {v \in start..(stop - 1) : (v - start) % step = 0}

\* line 92: the test that guards paste
PasteCondStrict(pos_x, pos_y, base_width, base_height) ==
    pos_x >= 0 /\ pos_y >= 0 /\ pos_x < base_width /\ pos_y < base_height

PasteCond(pos_x, pos_y, base_width, base_height) ==
    pos_x < base_width /\ pos_y < base_height

\* the positions at which the loops paste the tile; x is the first component
Pasted(base_image, watermark_tile) ==
    {p \in Range(Offset(watermark_tile.w), base_image.w + watermark_tile.w,
                 Spacing(watermark_tile.w))
           \X Range(Offset(watermark_tile.h), base_image.h + watermark_tile.h,
                    Spacing(watermark_tile.h)) :
        PasteCond(p[1], p[2], base_image.w, base_image.h)}

\* range() raises ValueError on a zero step; alpha_composite keeps the size
create_tiled_pattern(base_image, watermark_tile) ==
    IF Spacing(watermark_tile.h) = 0 \/ Spacing(watermark_tile.w) = 0
    THEN Raised("ValueError")
    ELSE Returned([w |-> base_image.w, h |-> base_image.h,
                   rgb |-> <<>>, alpha |-> <<>>])

(***************************************************************************)
(* The server's state when no request is in flight.                        *)
(***************************************************************************)
Refs == 1..NumWorkers

NoResp == [status |-> 0, mimetype |-> "", error |-> "",
           body |-> [format |-> "", mode |-> "", w |-> 0, h |-> 0,
                     tile |-> <<0, 0>>, wm_alpha |-> <<>>, pastes |-> 0]]

NoOutcome == [kind |-> "", status |-> 0, decodable |-> FALSE, w |-> 0, h |-> 0]

NoReq == [has_url |-> FALSE, image_url |-> <<>>, logo_ok |-> FALSE,
          outcome |-> NoOutcome, original_image |-> NoImage,
          watermark |-> 0, downloads |-> 0]

\* the logo files the model installs: RGBA pixels in row order
LogoFiles ==
    { [w |-> 1, h |-> 1, rgb |-> <<7>>, alpha |-> <<255>>],
      [w |-> 2, h |-> 1, rgb |-> <<7, 9>>, alpha |-> <<255, 128>>] }

ServerIdle ==
    /\ heap = [ref \in Refs |-> NoImage]
    /\ pc = [r \in Workers |-> "idle"]
    /\ req = [r \in Workers |-> NoReq]
    /\ resp = [r \in Workers |-> NoResp]
    /\ healthResp = "none"
    /\ sinceHealth = [r \in Workers |-> FALSE]

HarnessOff == fin = <<>> /\ fout = <<>> /\ fpc = "off"

(***************************************************************************)
(* Calls of resize_proportional on every size and target within bounds.    *)
(***************************************************************************)
InitResize ==
    /\ logoExists = FALSE /\ logoValid = FALSE
    /\ logoImg = NoImage
    /\ ServerIdle
    /\ fin \in [w : 1..MaxDim, h : 1..MaxDim, target_size : 0..MaxTarget]
    /\ fout = Raised("")
    /\ fpc = "call"

ResizeCall ==
    /\ fpc = "call"
    /\ fout' = resize_proportional([w |-> fin.w, h |-> fin.h,
                                    rgb |-> <<>>, alpha |-> <<>>],
                                   fin.target_size)
    /\ fpc' = "returned"
    /\ UNCHANGED <<srvVars, heap, fin>>

SpecResize == InitResize /\ [][ResizeCall]_vars

(***************************************************************************)
(* Calls of adjust_opacity on a caller's buffer, held at reference 1.      *)
(***************************************************************************)
AlphaValues == {0, 5, 128, 255}
Opacities == {0, 5, 8, 10}

Buffers ==
    UNION { { [w |-> n, h |-> 1, rgb |-> [i \in 1..n |-> 7 + i], alpha |-> a] :
              a \in [1..n -> AlphaValues] } : n \in 1..MaxPix }

InitOpacity ==
    /\ logoExists = FALSE /\ logoValid = FALSE
    /\ logoImg = NoImage
    /\ pc = [r \in Workers |-> "idle"]
    /\ req = [r \in Workers |-> NoReq]
    /\ resp = [r \in Workers |-> NoResp]
    /\ healthResp = "none"
    /\ sinceHealth = [r \in Workers |-> FALSE]
    /\ \E b \in Buffers, op \in Opacities :
         /\ heap = [ref \in Refs |-> IF ref = 1 THEN b ELSE NoImage]
         /\ fin = [image |-> 1, opacity |-> op, before |-> b]
    /\ fout = [ret |-> 0]
    /\ fpc = "call"

OpacityCall ==
    /\ fpc = "call"
    /\ LET r == adjust_opacity(heap, fin.image, fin.opacity)
       IN  heap' = r.heap /\ fout' = [ret |-> r.ret]
    /\ fpc' = "returned"
    /\ UNCHANGED <<srvVars, fin>>

SpecOpacity == InitOpacity /\ [][OpacityCall]_vars

(***************************************************************************)
(* The loops of create_tiled_pattern, one iteration per step.  fout holds  *)
(* the loop variables, the positions visited and the positions pasted.     *)
(***************************************************************************)
InitTile ==
    /\ logoExists = FALSE /\ logoValid = FALSE
    /\ logoImg = NoImage
    /\ ServerIdle
    /\ fin \in [base_image : [w : 1..MaxCanvas, h : 1..MaxCanvas],
                watermark_tile : [w : 1..MaxTile, h : 1..MaxTile]]
    /\ fout = [x |-> 0, y |-> 0, visited |-> {}, pasted |-> {}, exc |-> ""]
    /\ fpc = "call"

\* line 85: the outer range is built
TileEnter ==
    /\ fpc = "call"
    /\ IF Spacing(fin.watermark_tile.h) = 0
       THEN fpc' = "raised" /\ fout' = [fout EXCEPT !.exc = "ValueError"]
       ELSE fpc' = "outer" /\ fout' = [fout EXCEPT !.y = Offset(fin.watermark_tile.h)]
    /\ UNCHANGED <<srvVars, heap, fin>>

\* line 85-86: next y, and the inner range is built; lines 96-97 at the end
TileOuter ==
    /\ fpc = "outer"
    /\ IF fout.y < fin.base_image.h + fin.watermark_tile.h
       THEN IF Spacing(fin.watermark_tile.w) = 0
            THEN fpc' = "raised" /\ fout' = [fout EXCEPT !.exc = "ValueError"]
            ELSE fpc' = "inner"
                 /\ fout' = [fout EXCEPT !.x = Offset(fin.watermark_tile.w)]
       ELSE fpc' = "returned" /\ fout' = fout
    /\ UNCHANGED <<srvVars, heap, fin>>

\* lines 86-93: one position
TileInner ==
    /\ fpc = "inner"
    /\ IF fout.x < fin.base_image.w + fin.watermark_tile.w
       THEN /\ fout' = [fout EXCEPT
                  !.visited = @ \cup {<<fout.x, fout.y>>},
                  !.pasted = IF PasteCond(fout.x, fout.y,
                                          fin.base_image.w, fin.base_image.h)
                             THEN @ \cup {<<fout.x, fout.y>>} ELSE @,
                  !.x = @ + Spacing(fin.watermark_tile.w)]
            /\ fpc' = "inner"
       ELSE /\ fout' = [fout EXCEPT !.y = @ + Spacing(fin.watermark_tile.h)]
            /\ fpc' = "outer"
    /\ UNCHANGED <<srvVars, heap, fin>>

NextTile == TileEnter \/ TileOuter \/ TileInner

SpecTile == InitTile /\ [][NextTile]_vars

(***************************************************************************)
(* The request handlers (lines 24-47, 99-181).                             *)
(***************************************************************************)
\* check_logo: the file exists and verifies as an image
check_logo_unchecked(exists, valid) == TRUE

check_logo(exists, valid) == exists /\ valid

\* what requests.get meets: a transport failure, or a final response with a
\* status and a body that decodes as a w x h image or does not
RequestExceptions == {"ConnectionError", "Timeout", "HTTPError"}

\* download_image: requests.get raises on transport failures,
\* raise_for_status raises HTTPError for 400 <= status < 600 only,
\* Image.open raises on a body that is no image
download_image(outcome) ==
    IF outcome.kind # "response" THEN Raised(outcome.kind)
    ELSE IF outcome.status >= 400 /\ outcome.status < 600 THEN Raised("HTTPError")
    ELSE IF ~outcome.decodable THEN Raised("UnidentifiedImageError")
    ELSE Returned([w |-> outcome.w, h |-> outcome.h, rgb |-> <<>>, alpha |-> <<>>])

ErrorResp(status, error) ==
    [NoResp EXCEPT !.status = status, !.mimetype = "application/json",
                   !.error = error]

\* lines 171-176: the two except clauses of watermark_image
HandleException(exc) ==
    IF exc \in RequestExceptions
    THEN ErrorResp(400, "Nao foi possivel baixar a imagem")
    ELSE ErrorResp(500, "Erro ao processar imagem")

\* str.lower and str.endswith on the URL, a sequence of characters
UpperChars == <<"A", "B", "E", "F", "G", "I", "J", "M", "N", "P", "T", "X">>
LowerChars == <<"a", "b", "e", "f", "g", "i", "j", "m", "n", "p", "t", "x">>

LowerChar(c) ==
    IF \E i \in 1..Len(UpperChars) : UpperChars[i] = c
    THEN LowerChars[CHOOSE i \in 1..Len(UpperChars) : UpperChars[i] = c]
    ELSE c

Lower(str) == [i \in 1..Len(str) |-> LowerChar(str[i])]

EndsWith(str, suffix) ==
    /\ Len(str) >= Len(suffix)
    /\ SubSeq(str, Len(str) - Len(suffix) + 1, Len(str)) = suffix

PngSuffixes ==
    { <<".", "p", "n", "g">>, <<".", "g", "i", "f">>,
      <<".", "b", "m", "p">>, <<".", "t", "i", "f", "f">> }

IsPngUrlCaseSensitive(image_url) ==
    \E suffix \in PngSuffixes : EndsWith(image_url, suffix)

\* line 153
IsPngUrl(image_url) ==
    \E suffix \in PngSuffixes : EndsWith(Lower(image_url), suffix)

\* lines 149-169: save as PNG, or flatten to RGB and save as JPEG
Encode(image_url, body) ==
    IF IsPngUrl(image_url)
    THEN [status |-> 200, mimetype |-> "image/png", error |-> "",
          body |-> [body EXCEPT !.format = "PNG", !.mode = "RGBA"]]
    ELSE [status |-> 200, mimetype |-> "image/jpeg", error |-> "",
          body |-> [body EXCEPT !.format = "JPEG", !.mode = "RGB"]]

\* lines 111-122 and 149-176: from the adjusted logo to the response
ComposeResp(image_url, main_image, watermark) ==
    LET base_size == Min(main_image.w, main_image.h)
        watermark_size == (base_size * WATERMARK_SCALE) \div 100
        resized == resize_proportional(watermark, watermark_size)
        rotated_watermark == ImageRotate(resized.img, ROTATION_ANGLE)
        watermarked == IF resized.ok
                       THEN create_tiled_pattern(main_image, rotated_watermark)
                       ELSE resized
    IN  IF watermarked.ok
        THEN Encode(image_url,
                    [format |-> "", mode |-> "RGBA",
                     w |-> watermarked.img.w, h |-> watermarked.img.h,
                     tile |-> <<rotated_watermark.w, rotated_watermark.h>>,
                     wm_alpha |-> watermark.alpha,
                     pastes |-> Cardinality(Pasted(main_image, rotated_watermark))])
        ELSE HandleException(watermarked.exc)

\* `if not image_url`
UrlGiven(q) == q.has_url /\ q.image_url # <<>>

\* lines 134-135 and 138-139: where the handler goes after each check
UrlCheckNext(given) == IF given THEN "check_logo" ELSE "done"

LogoCheckNextAlways(ok) == "download"

LogoCheckNext(ok) == IF ok THEN "download" ELSE "done"

\* Image.open creates a new image object
NewRefCached(h) == CHOOSE ref \in Refs : TRUE

NewRef(h) == CHOOSE ref \in Refs : h[ref] = NoImage

\* lines 133-135
Begin(r, params) ==
    /\ pc[r] = "idle"
    /\ \E p \in params :
         LET q == [NoReq EXCEPT !.has_url = p.has_url, !.image_url = p.image_url]
         IN  /\ req' = [req EXCEPT ![r] = q]
             /\ pc' = [pc EXCEPT ![r] = UrlCheckNext(UrlGiven(q))]
             /\ resp' = IF UrlGiven(q) THEN resp
                        ELSE [resp EXCEPT ![r] =
                                ErrorResp(400, "Parametro 'url' e obrigatorio")]
    /\ sinceHealth' = [sinceHealth EXCEPT ![r] = healthResp = "false" /\ ~logoExists]
    /\ UNCHANGED <<logoExists, logoValid, logoImg, heap, healthResp, fnVars>>

\* lines 138-139
CheckLogo(r) ==
    /\ pc[r] = "check_logo"
    /\ LET ok == check_logo(logoExists, logoValid)
       IN  /\ req' = [req EXCEPT ![r].logo_ok = ok]
           /\ pc' = [pc EXCEPT ![r] = LogoCheckNext(ok)]
           /\ resp' = IF ok THEN resp
                      ELSE [resp EXCEPT ![r] =
                              ErrorResp(500, "Logo 'logo.png' nao encontrada")]
    /\ UNCHANGED <<logoExists, logoValid, logoImg, heap, healthResp, sinceHealth, fnVars>>

\* line 144
Download(r, outcomes) ==
    /\ pc[r] = "download"
    /\ \E o \in outcomes :
         LET d == download_image(o)
         IN  /\ req' = [req EXCEPT ![r].outcome = o, ![r].downloads = @ + 1,
                                   ![r].original_image = d.img]
             /\ IF d.ok
                THEN pc' = [pc EXCEPT ![r] = "open_logo"] /\ resp' = resp
                ELSE /\ pc' = [pc EXCEPT ![r] = "done"]
                     /\ resp' = [resp EXCEPT ![r] = HandleException(d.exc)]
    /\ UNCHANGED <<logoExists, logoValid, logoImg, heap, healthResp, sinceHealth, fnVars>>

\* lines 103-106: Image.open(LOGO_FILENAME).convert("RGBA")
OpenLogo(r) ==
    /\ pc[r] = "open_logo"
    /\ IF logoExists /\ logoValid
       THEN LET ref == NewRef(heap)
            IN  /\ heap' = [heap EXCEPT ![ref] = logoImg]
                /\ req' = [req EXCEPT ![r].watermark = ref]
                /\ pc' = [pc EXCEPT ![r] = "adjust_opacity"]
                /\ resp' = resp
       ELSE /\ resp' = [resp EXCEPT ![r] =
                          HandleException(IF logoExists
                                          THEN "UnidentifiedImageError"
                                          ELSE "FileNotFoundError")]
            /\ pc' = [pc EXCEPT ![r] = "done"]
            /\ UNCHANGED <<heap, req>>
    /\ UNCHANGED <<logoExists, logoValid, logoImg, healthResp, sinceHealth, fnVars>>

\* line 109
AdjustOpacity(r) ==
    /\ pc[r] = "adjust_opacity"
    /\ LET a == adjust_opacity(heap, req[r].watermark, WATERMARK_OPACITY)
       IN  /\ heap' = a.heap
           /\ req' = [req EXCEPT ![r].watermark = a.ret]
    /\ pc' = [pc EXCEPT ![r] = "compose"]
    /\ UNCHANGED <<logoExists, logoValid, logoImg, resp, healthResp, sinceHealth, fnVars>>

\* lines 111-176; the request's image objects die with its locals
Compose(r) ==
    /\ pc[r] = "compose"
    /\ resp' = [resp EXCEPT ![r] =
                  ComposeResp(req[r].image_url, req[r].original_image,
                              heap[req[r].watermark])]
    /\ heap' = [heap EXCEPT ![req[r].watermark] = NoImage]
    /\ pc' = [pc EXCEPT ![r] = "done"]
    /\ UNCHANGED <<logoExists, logoValid, logoImg, req, healthResp, sinceHealth, fnVars>>

\* the response has been sent; the worker takes the next request
Return(r) ==
    /\ pc[r] = "done"
    /\ pc' = [pc EXCEPT ![r] = "idle"]
    /\ req' = [req EXCEPT ![r] = NoReq]
    /\ resp' = [resp EXCEPT ![r] = NoResp]
    /\ sinceHealth' = [sinceHealth EXCEPT ![r] = FALSE]
    /\ UNCHANGED <<logoExists, logoValid, logoImg, heap, healthResp, fnVars>>

\* lines 178-181
health_check ==
    /\ healthResp' = IF logoExists THEN "true" ELSE "false"
    /\ UNCHANGED <<logoExists, logoValid, logoImg, heap, pc, req, resp,
                   sinceHealth, fnVars>>

\* the operator of the machine removes or installs the logo file
RemoveLogo ==
    /\ logoExists
    /\ logoExists' = FALSE /\ logoValid' = FALSE
    /\ UNCHANGED <<logoImg, heap, pc, req, resp, healthResp, sinceHealth, fnVars>>

InstallLogo ==
    /\ ~logoExists
    /\ logoExists' = TRUE
    /\ logoValid' \in BOOLEAN
    /\ logoImg' \in LogoFiles
    /\ sinceHealth' = [r \in Workers |-> FALSE]
    /\ UNCHANGED <<heap, pc, req, resp, healthResp, fnVars>>

(***************************************************************************)
(* The inputs the model feeds the handlers.                                *)
(***************************************************************************)
Urls ==
    { <<>>,
      <<"x", ".", "p", "n", "g">>,
      <<"x", ".", "P", "N", "G">>,
      <<"x", ".", "g", "i", "f">>,
      <<"x", ".", "B", "m", "P">>,
      <<"x", ".", "t", "i", "f", "f">>,
      <<"x", ".", "t", "i", "f">>,
      <<"x", ".", "j", "p", "g">>,
      <<"x", ".", "p", "n", "g", "?", "a">>,
      <<"p", "n", "g">> }

Params ==
    {[has_url |-> FALSE, image_url |-> <<>>]}
    \cup {[has_url |-> TRUE, image_url |-> u] : u \in Urls}

Failures ==
    { [kind |-> "ConnectionError", status |-> 0, decodable |-> FALSE, w |-> 0, h |-> 0],
      [kind |-> "Timeout", status |-> 0, decodable |-> FALSE, w |-> 0, h |-> 0],
      [kind |-> "response", status |-> 404, decodable |-> FALSE, w |-> 0, h |-> 0],
      [kind |-> "response", status |-> 503, decodable |-> FALSE, w |-> 0, h |-> 0],
      [kind |-> "response", status |-> 304, decodable |-> FALSE, w |-> 0, h |-> 0],
      [kind |-> "response", status |-> 200, decodable |-> FALSE, w |-> 0, h |-> 0] }

ImageOutcome(w, h) ==
    [kind |-> "response", status |-> 200, decodable |-> TRUE, w |-> w, h |-> h]

Outcomes ==
    Failures \cup {ImageOutcome(w, h) : w \in 1..MaxSide, h \in 1..MaxSide}

Init ==
    /\ logoExists \in BOOLEAN
    /\ logoValid \in {v \in BOOLEAN : v => logoExists}
    /\ logoImg \in LogoFiles
    /\ ServerIdle
    /\ HarnessOff

\* one request at a time, the development server's default
Next ==
    \/ Begin(1, Params)
    \/ CheckLogo(1)
    \/ Download(1, Outcomes)
    \/ OpenLogo(1)
    \/ AdjustOpacity(1)
    \/ Compose(1)
    \/ Return(1)
    \/ health_check
    \/ RemoveLogo
    \/ InstallLogo

Spec == Init /\ [][Next]_vars

(***************************************************************************)
(* Requests on every worker thread at once, against a logo file that       *)
(* stays as it is.                                                          *)
(***************************************************************************)
ConcParams ==
    { [has_url |-> FALSE, image_url |-> <<>>],
      [has_url |-> TRUE, image_url |-> <<"x", ".", "p", "n", "g">>] }

ConcOutcomes ==
    { [kind |-> "Timeout", status |-> 0, decodable |-> FALSE, w |-> 0, h |-> 0],
      ImageOutcome(MaxSide, MaxSide),
      ImageOutcome(1, MaxSide) }

NextConc ==
    \/ \E r \in Workers :
         \/ Begin(r, ConcParams)
         \/ CheckLogo(r)
         \/ Download(r, ConcOutcomes)
         \/ OpenLogo(r)
         \/ AdjustOpacity(r)
         \/ Compose(r)
         \/ Return(r)
    \/ health_check

SpecConc == Init /\ [][NextConc]_vars

(***************************************************************************)
(*                              Properties                                 *)
(***************************************************************************)

\* C1: for every source image of width W >= 1 and height H >= 1 that reaches
\* the pipeline with the logo loaded, apply_diagonal_watermark returns an
\* image of exactly W x H (the request answers 200 with a W x H body).
C1_OutputSizeEqualsSource ==
    \A r \in Workers :
        (pc[r] = "done" /\ req[r].watermark # 0) =>
            /\ resp[r].status = 200
            /\ resp[r].body.w = req[r].original_image.w
            /\ resp[r].body.h = req[r].original_image.h

\* a download outcome the failure taxonomy calls a download failure
DownloadFailed(o) ==
    \/ o.kind \in {"ConnectionError", "Timeout"}
    \/ o.kind = "response" /\ ~(o.status >= 200 /\ o.status < 300)

\* C2: every finished /watermark request has one response whose status
\* follows the taxonomy: no url gives 400; logo absent or undecodable gives
\* 500; a download failure (network error, non-2xx status, timeout) gives
\* 400; any other failure gives 500; every non-200 response is a JSON
\* object with an error string.
C2_FailureTaxonomy ==
    \A r \in Workers :
        pc[r] = "done" =>
            LET q == req[r]
                s == resp[r].status
            IN  /\ s \in {200, 400, 500}
                /\ ~UrlGiven(q) => s = 400
                /\ (UrlGiven(q) /\ ~q.logo_ok) => s = 500
                /\ (UrlGiven(q) /\ q.logo_ok /\ DownloadFailed(q.outcome)) => s = 400
                /\ (UrlGiven(q) /\ q.logo_ok /\ ~DownloadFailed(q.outcome) /\ s # 200)
                      => s = 500
                /\ s # 200 => (resp[r].error # "" /\ resp[r].mimetype = "application/json")

LogoUnavailable(response) ==
    response.status = 500 /\ response.error = "Logo 'logo.png' nao encontrada"

\* C3 as stated: after /health reported logo_exists false, any /watermark
\* call made while the logo file is still absent returns 500 with the
\* logo-unavailable error.
C3_AbsentLogoGives500 ==
    \A r \in Workers :
        (pc[r] = "done" /\ sinceHealth[r]) => LogoUnavailable(resp[r])

\* C3 as amended: after /health reported logo_exists false, a /watermark
\* call that carries a non-empty url and is made while the logo file is
\* still absent returns 500 with the logo-unavailable error; without a url
\* the call returns 400 before the logo is looked at.
C3_AbsentLogoWithUrlGives500 ==
    \A r \in Workers :
        (pc[r] = "done" /\ sinceHealth[r]) =>
            IF UrlGiven(req[r]) THEN LogoUnavailable(resp[r])
            ELSE resp[r].status = 400

C3_Witness ==
    /\ pc[1] = "done" /\ sinceHealth[1] /\ UrlGiven(req[1])
    /\ healthResp = "false" /\ ~logoExists
    /\ LogoUnavailable(resp[1])

\* the URL's extension: from its last dot to its end
Extension(image_url) ==
    LET dots == {i \in 1..Len(image_url) : image_url[i] = "."}
    IN  IF dots = {} THEN <<>>
        ELSE SubSeq(image_url, CHOOSE i \in dots : \A j \in dots : j <= i,
                    Len(image_url))

C5_ResizeFloorAtLeastOne ==
    (fpc = "returned" /\ fin.target_size >= 1) =>
        LET longer == Max(fin.w, fin.h)
        IN  /\ fout.ok
            /\ fout.img.w = (fin.w * fin.target_size) \div longer
            /\ fout.img.h = (fin.h * fin.target_size) \div longer
            /\ fout.img.w >= 1 /\ fout.img.h >= 1
            /\ fout.img.w <= fin.target_size /\ fout.img.h <= fin.target_size

\* the grid of create_tiled_pattern: from (-w/2, -h/2) in steps of
\* (floor(0.8 w), floor(0.8 h)) up to (W + w, H + h)
Grid ==
    LET base == fin.base_image
        tile == fin.watermark_tile
    IN  { <<Offset(tile.w) + i * Spacing(tile.w), Offset(tile.h) + j * Spacing(tile.h)>> :
            i \in { n \in 0..(base.w + 2 * tile.w) :
                      Offset(tile.w) + n * Spacing(tile.w) < base.w + tile.w },
            j \in { n \in 0..(base.h + 2 * tile.h) :
                      Offset(tile.h) + n * Spacing(tile.h) < base.h + tile.h } }

\* C6 as stated: a tile is pasted at a grid position if and only if its
\* origin lies within the canvas, 0 <= x < W and 0 <= y < H.
C6_PastedIffOriginInCanvas ==
    fpc = "returned" =>
        fout.pasted = { p \in Grid : /\ p[1] >= 0 /\ p[1] < fin.base_image.w
                                     /\ p[2] >= 0 /\ p[2] < fin.base_image.h }

\* C6 as amended: the loops visit the grid, and a tile is pasted at a grid
\* position if and only if x < W and y < H; positions with a negative
\* coordinate are pasted too, only those at or beyond the right or bottom
\* edge are skipped.
C6_PastedIffBeforeFarEdges ==
    /\ fout.pasted = { p \in fout.visited :
                         p[1] < fin.base_image.w /\ p[2] < fin.base_image.h }
    /\ fpc = "returned" =>
          /\ fout.visited = Grid
          /\ fout.pasted = Pasted(fin.base_image, fin.watermark_tile)

C6_Witness ==
    /\ fpc = "returned"
    /\ \E p \in fout.pasted : p[1] < 0 /\ p[2] < 0
    /\ \E p \in fout.visited : p \notin fout.pasted

\* C7: adjust_opacity leaves the caller's buffer as it was; for a factor
\* below 1 the result has the same colours and every alpha multiplied by
\* the factor; for a factor of 1 or more the result is the input.  (That
\* the result is a new object is not even required here.)
C7_OpacityLeavesArgument ==
    fpc = "returned" =>
        /\ heap[fin.image] = fin.before
        /\ heap[fout.ret].rgb = fin.before.rgb
        /\ IF fin.opacity < 10
           THEN heap[fout.ret].alpha =
                    [i \in 1..Len(fin.before.alpha) |->
                       (fin.before.alpha[i] * fin.opacity) \div 10]
           ELSE fout.ret = fin.image

\* C8: within one request the source image is requested at most once, only
\* after the url was found present and the logo check passed; a request
\* rejected for its url or the logo requests nothing.
C8_OneDownloadAfterChecks ==
    \A r \in Workers :
        /\ req[r].downloads <= 1
        /\ req[r].downloads = 1 => (UrlGiven(req[r]) /\ req[r].logo_ok)
        /\ (pc[r] = "done" /\ (~UrlGiven(req[r]) \/ ~req[r].logo_ok))
              => req[r].downloads = 0

C8_Witness ==
    /\ pc[1] = "done" /\ req[1].downloads = 1
    /\ req[1].outcome.kind = "Timeout"
    /\ resp[1].status = 400

\* the response of a request run alone against the logo file
SoloResponse(q) ==
    IF ~UrlGiven(q) THEN ErrorResp(400, "Parametro 'url' e obrigatorio")
    ELSE IF ~check_logo(logoExists, logoValid)
    THEN ErrorResp(500, "Logo 'logo.png' nao encontrada")
    ELSE LET d == download_image(q.outcome)
             a == adjust_opacity([ref \in Refs |-> logoImg], 1, WATERMARK_OPACITY)
         IN  IF ~d.ok THEN HandleException(d.exc)
             ELSE ComposeResp(q.image_url, d.img, a.heap[a.ret])

InPipeline(r) == pc[r] \in {"adjust_opacity", "compose"}

\* C9: under any interleaving of requests, requests in the pipeline hold
\* distinct logo buffers, and every response equals the response the
\* request gives when run alone against the same logo file and source.
C9_RequestsIsolated ==
    /\ \A r1, r2 \in Workers :
          (r1 # r2 /\ InPipeline(r1) /\ InPipeline(r2))
              => req[r1].watermark # req[r2].watermark
    /\ \A r \in Workers : pc[r] = "done" => resp[r] = SoloResponse(req[r])

C9_Witness ==
    \E r1, r2 \in Workers :
        /\ r1 # r2
        /\ pc[r1] = "done" /\ resp[r1].status = 200
        /\ resp[r1].body.wm_alpha # logoImg.alpha
        /\ pc[r2] = "compose"

\* C10: for every base image and every tile of width and height >= 1 the
\* loops of create_tiled_pattern use strictly positive steps and end by
\* returning, never by raising.
C10_TilingStepsPositive ==
    fpc # "call" =>
        /\ Spacing(fin.watermark_tile.w) >= 1
        /\ Spacing(fin.watermark_tile.h) >= 1
        /\ fpc # "raised"

====
